---- MODULE Spec2Model ----
(***************************************************************************)
(* Model of two parts of the boot subsystem:                               *)
(*   - vmm/src/igvm/loader.rs: the IGVM import engine (Loader), a state    *)
(*     machine over accepted page ranges, imported registers, the byte     *)
(*     counter and guest memory;                                           *)
(*   - arch/src/aarch64/layout.rs: arch_memory_regions, a pure function    *)
(*     from (ram_size, vcpus) to a map RegionName -> (base, size).         *)
(*                                                                         *)
(* Integers of the model are unbounded; the bounds below keep every        *)
(* intermediate value of the loader far below 2^64, so no u64 operation   *)
(* of loader.rs wraps inside the model.                                    *)
(***************************************************************************)
EXTENDS Integers, FiniteSets, Sequences, TLC

\* ------------------------------------------------------------------ bounds
\* Largest page index used as a page_base and as a page of guest memory.
MaxPage == 1

\* Largest number of vcpus given to arch_memory_regions.
MaxVcpus == 8
\* ram_size is drawn from within MaxRamDelta units of the size of the 32-bit
\* RAM space, and from the whole numbers of GiB up to MaxRamGiB.
MaxRamDelta == 2
MaxRamGiB == 8

\* --------------------------------------------------- loader.rs: the types
\* crate::igvm::HV_PAGE_SIZE, imported at loader.rs:1.
HV_PAGE_SIZE == 4096

\* igvm_parser::hv_defs::Vtl.
Vtl == {"Vtl0", "Vtl1", "Vtl2"}

\* crate::igvm::StartupMemoryType: the two variants the match at
\* loader.rs:162-172 is exhaustive over.
StartupMemoryType == {"Ram", "Vtl2ProtectableRam"}

\* crate::igvm::BootPageAcceptance: an opaque tag; two variants are enough
\* to tell the recorded kind of one range from that of another.
BootPageAcceptance == {"Exclusive", "Shared"}

\* X86Register: a variant (its Discriminant) and the value it carries.  Two
\* variants with two values each.
RegisterKinds == {"Rip", "Cr3"}
RegisterValues == {10, 20}
X86Register == [kind : RegisterKinds, value : RegisterValues]

\* std::mem::discriminant(&register)
discriminant(register) == register.kind

\* struct ImportRegion
ImportRegion(page_base, page_count, acceptance) ==
    [page_base |-> page_base, page_count |-> page_count, acceptance |-> acceptance]

NoRegion == ImportRegion(0, 0, "none")

\* enum Error, and Ok(()).  Every outcome has the same shape; region is
\* NoRegion unless the tag is OverlapsExistingRegion.  "Panic" is the
\* process abort of panic!() at loader.rs:146: not a value of Result.
Ok == [tag |-> "Ok", region |-> NoRegion]
OverlapsExistingRegion(region) == [tag |-> "OverlapsExistingRegion", region |-> region]
InvalidVtl == [tag |-> "InvalidVtl", region |-> NoRegion]
MemoryUnavailable == [tag |-> "MemoryUnavailable", region |-> NoRegion]
DataTooLarge == [tag |-> "DataTooLarge", region |-> NoRegion]
Panic == [tag |-> "Panic", region |-> NoRegion]
NoResult == [tag |-> "none", region |-> NoRegion]

ErrorTags == {"OverlapsExistingRegion", "InvalidVtl", "MemoryUnavailable", "DataTooLarge"}

\* ------------------------------------------------------------ guest memory
\* GuestMemoryMmap: a finite set of regions, each a closed byte interval
\* [start_addr, last_addr]; vm-memory keeps them pairwise disjoint.
PageRegion(first_page, last_page) ==
    [start |-> first_page * HV_PAGE_SIZE,
     last  |-> last_page * HV_PAGE_SIZE + HV_PAGE_SIZE - 1]

CandidateRegions ==
    {PageRegion(p[1], p[2]) : p \in {q \in (0..MaxPage) \X (0..MaxPage) : q[1] <= q[2]}}

Disjoint(regions) ==
    \A r1 \in regions : \A r2 \in regions :
        r1 # r2 => (r1.last < r2.start \/ r2.last < r1.start)

\* The guest memories a Loader is constructed over.
GuestMemories == {m \in SUBSET CandidateRegions : Disjoint(m)}

\* Guest memories whose regions need not start or end on a page boundary: a
\* region starts at a page or one byte into it, and ends on the first byte,
\* the last byte but one or the last byte of a page.  At most two regions.
ByteRegions ==
    {r \in {[start |-> a * HV_PAGE_SIZE + head, last |-> b * HV_PAGE_SIZE + tail] :
               a \in 0..MaxPage, b \in 0..MaxPage, head \in {0, 1},
               tail \in {0, HV_PAGE_SIZE - 2, HV_PAGE_SIZE - 1}} :
        r.start <= r.last}
ByteGuestMemories ==
    {{}} \cup {m \in {{r1, r2} : r1 \in ByteRegions, r2 \in ByteRegions} : Disjoint(m)}

\* GuestMemory::find_region(addr)
find_region(mem, addr) == {r \in mem : r.start <= addr /\ addr <= r.last}

\* The bytes vm-memory's try_access can reach from addr: it walks from region
\* to region for as long as the next address is backed.
RECURSIVE Reachable(_, _)
Reachable(mem, addr) ==
    IF find_region(mem, addr) = {} THEN 0
    ELSE LET r == CHOOSE x \in find_region(mem, addr) : TRUE
         IN  (r.last - addr + 1) + Reachable(mem, r.last + 1)

Min(a, b) == IF a <= b THEN a ELSE b

\* Bytes::write(data, addr) on the guest memory, loader.rs:126-128: the
\* number of bytes written (it may be fewer than len), or -1 for Err, which
\* try_access returns when addr is in no region.
write(mem, len, addr) ==
    IF find_region(mem, addr) = {} THEN -1
    ELSE Min(len, Reachable(mem, addr))

\* ------------------------------------------------------- accepted ranges
\* Mutant of Overlapping: the intervals compared as if they were half-open,
\* so that sharing only an end page is not seen.
OverlappingHalfOpen(ranges, range_start, range_end) ==
    {e \in ranges : e.start < range_end /\ range_start < e.end}

\* Mutant of Overlapping: an entry that ends on the page before the range, or
\* starts on the page after it, is taken to intersect it.
OverlappingAdjacent(ranges, range_start, range_end) ==
    {e \in ranges : e.start <= range_end + 1 /\ range_start <= e.end + 1}

\* RangeMap<u64, BootPageAcceptance>: entries (start, end, value), closed
\* intervals.  RangeMap::entry(range) is Overlapping when an entry
\* intersects range and Vacant otherwise.
Overlapping(ranges, range_start, range_end) ==
    {e \in ranges : e.start <= range_end /\ range_start <= e.end}

\* Mutant of AcceptNewRange: the range is inserted before the overlap is
\* looked at, so a rejected range stays in the tracker.
AcceptNewRangeInsertFirst(ranges, page_base, page_count, acceptance) ==
    LET page_end == page_base + page_count - 1
        overlapping == Overlapping(ranges, page_base, page_end)
        inserted == ranges \cup
                       {[start |-> page_base, end |-> page_end, value |-> acceptance]}
    IN  IF overlapping # {}
        THEN {[result |-> OverlapsExistingRegion(
                              ImportRegion(e.start, e.end - e.start + 1, e.value)),
               accepted_ranges |-> inserted] : e \in overlapping}
        ELSE {[result |-> Ok, accepted_ranges |-> inserted]}

\* Mutant of AcceptNewRange: the error carries the parameters of the rejected
\* request.
AcceptNewRangeReportsRequest(ranges, page_base, page_count, acceptance) ==
    LET page_end == page_base + page_count - 1
        overlapping == Overlapping(ranges, page_base, page_end)
    IN  IF overlapping # {}
        THEN {[result |-> OverlapsExistingRegion(
                              ImportRegion(page_base, page_count, acceptance)),
               accepted_ranges |-> ranges]}
        ELSE {[result |-> Ok,
               accepted_ranges |-> ranges \cup
                   {[start |-> page_base, end |-> page_end, value |-> acceptance]}]}

\* Mutant of AcceptNewRange: the entry reported by a rejected request is taken
\* out of the tracker.
AcceptNewRangeEvicts(ranges, page_base, page_count, acceptance) ==
    LET page_end == page_base + page_count - 1
        overlapping == Overlapping(ranges, page_base, page_end)
    IN  IF overlapping # {}
        THEN {[result |-> OverlapsExistingRegion(
                              ImportRegion(e.start, e.end - e.start + 1, e.value)),
               accepted_ranges |-> ranges \ {e}] : e \in overlapping}
        ELSE {[result |-> Ok,
               accepted_ranges |-> ranges \cup
                   {[start |-> page_base, end |-> page_end, value |-> acceptance]}]}

\* Loader::accept_new_range as a function of the tracker: the outcomes the
\* call can have, each the Result and the tracker after the call.  When
\* several entries intersect, the one entry() hands back depends on the
\* map's binary search; every intersecting entry is a possible outcome.
AcceptNewRange(ranges, page_base, page_count, acceptance) ==
    LET page_end == page_base + page_count - 1
        overlapping == Overlapping(ranges, page_base, page_end)
    IN  IF overlapping # {}
        THEN {[result |-> OverlapsExistingRegion(
                              ImportRegion(e.start, e.end - e.start + 1, e.value)),
               accepted_ranges |-> ranges] : e \in overlapping}
        ELSE {[result |-> Ok,
               accepted_ranges |-> ranges \cup
                   {[start |-> page_base, end |-> page_end, value |-> acceptance]}]}

\* ------------------------------------------------------------------ state
VARIABLES
    memory,           \* Loader.memory: the regions of the guest memory
    written,          \* the byte intervals of guest memory the last call wrote
                      \* (no operation reads the contents of guest memory)
    regs,             \* Loader.regs: Discriminant -> X86Register
    accepted_ranges,  \* Loader.accepted_ranges
    max_vtl,          \* Loader.max_vtl
    bytes_written,    \* Loader.bytes_written
    call,             \* the last call made: the operation and its arguments
    result,           \* what the last call returned (Panic: it aborted)
    ok_bytes,         \* history: sum of page_count * HV_PAGE_SIZE over the
                      \* import_pages calls that returned Ok
    first_regs,       \* history: per kind, the first register imported with Ok
    ram_size,         \* layout.rs: argument of arch_memory_regions
    vcpus,            \* layout.rs: argument of arch_memory_regions
    regions           \* layout.rs: the map arch_memory_regions returned

loader_vars == <<memory, written, regs, accepted_ranges, max_vtl, bytes_written,
                 call, result, ok_bytes, first_regs>>
layout_vars == <<ram_size, vcpus, regions>>
vars == <<memory, written, regs, accepted_ranges, max_vtl, bytes_written,
          call, result, ok_bytes, first_regs, ram_size, vcpus, regions>>

EmptyMap == [k \in {} |-> 0]

\* The arguments of a call, one shape for the four operations.
Call(op, page_base, page_count, acceptance, len, vtl, register, memory_type) ==
    [op |-> op, page_base |-> page_base, page_count |-> page_count,
     acceptance |-> acceptance, len |-> len, vtl |-> vtl,
     register |-> register, memory_type |-> memory_type]

NoRegister == [kind |-> "none", value |-> 0]
NoCall == Call("none", 0, 0, "none", 0, "none", NoRegister, "none")

\* No call was made on the layout side.
LayoutIdle == ram_size = 0 /\ vcpus = 0 /\ regions = EmptyMap

\* Loader::new(memory, max_vtl), loader.rs:70-78
LoaderNew(mem, vtl) ==
    /\ memory = mem
    /\ max_vtl = vtl
    /\ regs = EmptyMap
    /\ accepted_ranges = {}
    /\ bytes_written = 0
    /\ written = {}
    /\ call = NoCall
    /\ result = NoResult
    /\ ok_bytes = 0
    /\ first_regs = EmptyMap

Init ==
    /\ \E mem \in GuestMemories, vtl \in Vtl : LoaderNew(mem, vtl)
    /\ LayoutIdle

\* A panic aborts the process: no call follows it.
Running == result.tag # "Panic"

PageBases == 0..MaxPage
\* page_count of a call: one page or two, enough for two ranges to touch, to
\* overlap in part and to contain one another.
PageCounts == {1, 2}
\* len(data) of an import of page_count pages: no data, data that fills the
\* pages exactly, and data one byte too long for them.
DataLens(page_count) == {0, page_count * HV_PAGE_SIZE, page_count * HV_PAGE_SIZE + 1}

\* Loader::accept_new_range, loader.rs:84-106
accept_new_range(page_base, page_count, acceptance) ==
    /\ Running
    /\ \E o \in AcceptNewRange(accepted_ranges, page_base, page_count, acceptance) :
          /\ accepted_ranges' = o.accepted_ranges
          /\ result' = o.result
    /\ call' = Call("accept_new_range", page_base, page_count, acceptance,
                    0, "none", NoRegister, "none")
    /\ written' = {}
    /\ UNCHANGED <<memory, regs, max_vtl, bytes_written, ok_bytes, first_regs>>
    /\ UNCHANGED layout_vars

\* Mutant of CountBytes: the counter grows by len(data).
CountDataBytes(bytes, page_count, len) == bytes + len

\* self.bytes_written += page_count * HV_PAGE_SIZE, loader.rs:133
CountBytes(bytes, page_count, len) == bytes + page_count * HV_PAGE_SIZE

\* Mutant of ImportPages: the capacity check comes before the range is
\* accepted.
ImportPagesCapacityFirst(ranges, mem, bytes, page_base, page_count, acceptance, len) ==
    LET accepted == AcceptNewRange(ranges, page_base, page_count, acceptance)
        addr == page_base * HV_PAGE_SIZE
        n == write(mem, len, addr)
    IN  IF page_count * HV_PAGE_SIZE < len
        THEN {[result |-> DataTooLarge, accepted_ranges |-> ranges,
               written |-> {}, bytes_written |-> bytes]}
        ELSE {  IF o.result # Ok
                  THEN [result |-> o.result, accepted_ranges |-> o.accepted_ranges,
                        written |-> {}, bytes_written |-> bytes]
                ELSE IF n < 0
                  THEN [result |-> MemoryUnavailable,
                        accepted_ranges |-> o.accepted_ranges,
                        written |-> {}, bytes_written |-> bytes]
                ELSE [result |-> Ok, accepted_ranges |-> o.accepted_ranges,
                      written |-> IF n > 0 THEN {[lo |-> addr, hi |-> addr + n - 1]}
                                  ELSE {},
                      bytes_written |-> CountBytes(bytes, page_count, len)]
              : o \in accepted }

\* Loader::import_pages as a function of the state: the outcomes of the call.
ImportPages(ranges, mem, bytes, page_base, page_count, acceptance, len) ==
    LET accepted == AcceptNewRange(ranges, page_base, page_count, acceptance)
        addr == page_base * HV_PAGE_SIZE
        n == write(mem, len, addr)
    IN  {  IF o.result # Ok
             THEN \* accept_new_range(...)?
                  [result |-> o.result, accepted_ranges |-> o.accepted_ranges,
                   written |-> {}, bytes_written |-> bytes]
           ELSE IF page_count * HV_PAGE_SIZE < len
             THEN [result |-> DataTooLarge, accepted_ranges |-> o.accepted_ranges,
                   written |-> {}, bytes_written |-> bytes]
           ELSE IF n < 0
             THEN [result |-> MemoryUnavailable, accepted_ranges |-> o.accepted_ranges,
                   written |-> {}, bytes_written |-> bytes]
           ELSE [result |-> Ok, accepted_ranges |-> o.accepted_ranges,
                 written |-> IF n > 0 THEN {[lo |-> addr, hi |-> addr + n - 1]}
                             ELSE {},
                 bytes_written |-> CountBytes(bytes, page_count, len)]
         : o \in accepted }

\* Loader::import_pages, loader.rs:111-135
import_pages(page_base, page_count, acceptance, len) ==
    /\ Running
    /\ \E o \in ImportPages(accepted_ranges, memory, bytes_written,
                            page_base, page_count, acceptance, len) :
          /\ accepted_ranges' = o.accepted_ranges
          /\ written' = o.written
          /\ bytes_written' = o.bytes_written
          /\ result' = o.result
          /\ ok_bytes' = IF o.result = Ok THEN ok_bytes + page_count * HV_PAGE_SIZE
                         ELSE ok_bytes
    /\ call' = Call("import_pages", page_base, page_count, acceptance,
                    len, "none", NoRegister, "none")
    /\ UNCHANGED <<memory, regs, max_vtl, first_regs>>
    /\ UNCHANGED layout_vars

\* HashMap::insert through a vacant entry
Insert(map, key, value) ==
    [k \in DOMAIN map \cup {key} |-> IF k = key THEN value ELSE map[k]]

\* Mutant of ImportVpRegister: a kind already present is overwritten.
ImportVpRegisterOverwrite(table, maxvtl, vtl, register) ==
    IF vtl # maxvtl
    THEN [result |-> InvalidVtl, regs |-> table]
    ELSE [result |-> Ok, regs |-> Insert(table, discriminant(register), register)]

\* Mutant of ImportVpRegister: the level is compared with Vtl0, not with the
\* session's max_vtl.
ImportVpRegisterVtl0(table, maxvtl, vtl, register) ==
    IF vtl # "Vtl0"
    THEN [result |-> InvalidVtl, regs |-> table]
    ELSE IF discriminant(register) \in DOMAIN table
    THEN [result |-> Panic, regs |-> table]
    ELSE [result |-> Ok, regs |-> Insert(table, discriminant(register), register)]

\* Mutant of ImportVpRegister: the table is looked up before the level is
\* compared.
ImportVpRegisterDuplicateFirst(table, maxvtl, vtl, register) ==
    IF discriminant(register) \in DOMAIN table
    THEN [result |-> Panic, regs |-> table]
    ELSE IF vtl # maxvtl
    THEN [result |-> InvalidVtl, regs |-> table]
    ELSE [result |-> Ok, regs |-> Insert(table, discriminant(register), register)]

\* Loader::import_vp_register as a function of the state.
ImportVpRegister(table, maxvtl, vtl, register) ==
    IF vtl # maxvtl
    THEN [result |-> InvalidVtl, regs |-> table]
    ELSE IF discriminant(register) \in DOMAIN table
    THEN [result |-> Panic, regs |-> table]
    ELSE [result |-> Ok, regs |-> Insert(table, discriminant(register), register)]

\* Loader::import_vp_register, loader.rs:137-152
import_vp_register(vtl, register) ==
    /\ Running
    /\ LET o == ImportVpRegister(regs, max_vtl, vtl, register)
       IN  /\ regs' = o.regs
           /\ result' = o.result
           /\ first_regs' =
                 IF o.result = Ok /\ discriminant(register) \notin DOMAIN first_regs
                 THEN Insert(first_regs, discriminant(register), register)
                 ELSE first_regs
    /\ call' = Call("import_vp_register", 0, 0, "none", 0, vtl, register, "none")
    /\ written' = {}
    /\ UNCHANGED <<memory, accepted_ranges, max_vtl, bytes_written, ok_bytes>>
    /\ UNCHANGED layout_vars

\* Loader::get_initial_regs, loader.rs:80-82: the stored values, in no order.
get_initial_regs == {regs[k] : k \in DOMAIN regs}

\* Loader::gets_total_bytes_written, loader.rs:107-109
gets_total_bytes_written == bytes_written

\* Mutant of ScanMemory: the start and the end of the request are looked up
\* separately, so a request may run from one region into the next.
ScanMemoryAnyRegion(mem, page_base, page_count) ==
    LET base_address == page_base * HV_PAGE_SIZE
        end_address == base_address + (page_count * HV_PAGE_SIZE) - 1
    IN  IF find_region(mem, base_address) # {} /\ find_region(mem, end_address) # {}
        THEN Ok
        ELSE MemoryUnavailable

\* The loop of verify_startup_memory_available, loader.rs:177-200.  The
\* regions are pairwise disjoint, so at most one of them holds base_address
\* and the order of the iteration does not change the outcome.
ScanMemory(mem, page_base, page_count) ==
    LET base_address == page_base * HV_PAGE_SIZE
        end_address == base_address + (page_count * HV_PAGE_SIZE) - 1
        holding == {r \in mem : base_address >= r.start /\ base_address < r.last}
    IN  IF \E r \in holding : end_address > r.last THEN MemoryUnavailable
        ELSE IF holding # {} THEN Ok
        ELSE MemoryUnavailable

\* Mutant of VerifyStartupMemoryAvailable: the memory type is not looked at.
VerifyAnyMemoryType(mem, maxvtl, page_base, page_count, memory_type) ==
    ScanMemory(mem, page_base, page_count)

\* Loader::verify_startup_memory_available as a function of the state.
VerifyStartupMemoryAvailable(mem, maxvtl, page_base, page_count, memory_type) ==
    IF maxvtl # "Vtl2" /\ memory_type # "Ram" THEN MemoryUnavailable
    ELSE ScanMemory(mem, page_base, page_count)

\* Mutant of verify_startup_memory_available: a range found available is
\* entered in the tracker.
verify_startup_memory_available_accepting(page_base, page_count, memory_type) ==
    /\ Running
    /\ result' = VerifyStartupMemoryAvailable(memory, max_vtl, page_base,
                                              page_count, memory_type)
    /\ accepted_ranges' =
          IF result' = Ok
          THEN accepted_ranges \cup
                   {[start |-> page_base, end |-> page_base + page_count - 1,
                     value |-> "Exclusive"]}
          ELSE accepted_ranges
    /\ call' = Call("verify_startup_memory_available", page_base, page_count,
                    "none", 0, "none", NoRegister, memory_type)
    /\ written' = {}
    /\ UNCHANGED <<memory, regs, max_vtl, bytes_written, ok_bytes, first_regs>>
    /\ UNCHANGED layout_vars

\* Loader::verify_startup_memory_available, loader.rs:154-201
verify_startup_memory_available(page_base, page_count, memory_type) ==
    /\ Running
    /\ result' = VerifyStartupMemoryAvailable(memory, max_vtl, page_base,
                                              page_count, memory_type)
    /\ call' = Call("verify_startup_memory_available", page_base, page_count,
                    "none", 0, "none", NoRegister, memory_type)
    /\ written' = {}
    /\ UNCHANGED <<memory, regs, accepted_ranges, max_vtl, bytes_written,
                   ok_bytes, first_regs>>
    /\ UNCHANGED layout_vars

DoAcceptNewRange ==
    \E page_base \in PageBases, page_count \in PageCounts, acceptance \in BootPageAcceptance :
        accept_new_range(page_base, page_count, acceptance)

DoImportPages ==
    \E page_base \in PageBases, page_count \in PageCounts,
       acceptance \in BootPageAcceptance :
      \E len \in DataLens(page_count) :
        import_pages(page_base, page_count, acceptance, len)

DoImportVpRegister ==
    \E vtl \in Vtl, register \in X86Register : import_vp_register(vtl, register)

DoVerifyStartupMemoryAvailable ==
    \E page_base \in PageBases, page_count \in PageCounts, memory_type \in StartupMemoryType :
        verify_startup_memory_available(page_base, page_count, memory_type)

Next ==
    \/ DoAcceptNewRange
    \/ DoImportPages
    \/ DoImportVpRegister
    \/ DoVerifyStartupMemoryAvailable

Spec == Init /\ [][Next]_vars

\* The engine driven with page calls only: the tracker, the byte counter and
\* guest memory.
PagesNext == DoAcceptNewRange \/ DoImportPages
PagesInit == (\E mem \in GuestMemories : LoaderNew(mem, "Vtl0")) /\ LayoutIdle
PagesSpec == PagesInit /\ [][PagesNext]_vars

\* The engine driven with register imports only.
RegsNext == DoImportVpRegister
RegsSpec == Init /\ [][RegsNext]_vars

\* The engine driven with startup-memory checks only.
VerifyNext == DoVerifyStartupMemoryAvailable
VerifyInit ==
    (\E mem \in ByteGuestMemories, vtl \in Vtl : LoaderNew(mem, vtl)) /\ LayoutIdle
VerifySpec == VerifyInit /\ [][VerifyNext]_vars

\* The engine driven through its three public operations, over a guest memory
\* that backs page 0 only.
LoaderNext == DoImportPages \/ DoImportVpRegister \/ DoVerifyStartupMemoryAvailable
LoaderInit ==
    (\E vtl \in {"Vtl0", "Vtl2"} : LoaderNew({PageRegion(0, 0)}, vtl)) /\ LayoutIdle
LoaderSpec == LoaderInit /\ [][LoaderNext]_vars
\* ------------------------------------------------------------- layout.rs
\* Addresses and sizes of layout.rs are counted in units of 0x1000 bytes
\* (4 KiB): every constant of the file is a whole number of units, and
\* ram_size is taken to be one.  The hexadecimal byte value of the source
\* follows each number.  A negative number stands for a u64 subtraction
\* that went below zero.
UEFI_START == 0                         \* GuestAddress(0)
UEFI_SIZE == 1024                       \* 0x040_0000
MAPPED_IO_START == 36864                \* GuestAddress(0x0900_0000)
GIC_V3_DIST_SIZE == 16                  \* 0x01_0000
GIC_V3_DIST_START == MAPPED_IO_START - GIC_V3_DIST_SIZE
GIC_V3_REDIST_SIZE == 32                \* 0x02_0000
GIC_V3_ITS_SIZE == 32                   \* 0x02_0000
LEGACY_SERIAL_MAPPED_IO_START == MAPPED_IO_START
LEGACY_RTC_MAPPED_IO_START == 36880     \* GuestAddress(0x0901_0000)
LEGACY_GPIO_MAPPED_IO_START == 36896    \* GuestAddress(0x0902_0000)
MEM_PCI_IO_START == 36944               \* GuestAddress(0x0905_0000)
MEM_PCI_IO_SIZE == 16                   \* 0x10000
MEM_32BIT_DEVICES_START == 65536        \* GuestAddress(0x1000_0000)
MEM_32BIT_DEVICES_SIZE == 131072        \* 0x2000_0000
PCI_MMCONFIG_START == 196608            \* GuestAddress(0x3000_0000)
PCI_MMCONFIG_SIZE == 65536              \* 256 << 20
RAM_START == 262144                     \* GuestAddress(0x4000_0000)
MEM_32BIT_RESERVED_START == 1032192     \* GuestAddress(0xfc00_0000)
MEM_32BIT_RESERVED_SIZE == 16384        \* 0x0400_0000
RAM_64BIT_START == 1048576              \* GuestAddress(0x1_0000_0000)

\* enum RegionName, in the order of its declaration (derive(Ord)).
RegionNames ==
    <<"UEFI", "GIC_V3_ITS", "GIC_V3_REDIST", "GIC_V3_DIST",
      "LEGACY_SERIAL_MAPPED_IO", "LEGACY_RTC_MAPPED_IO", "LEGACY_GPIO_MAPPED_IO",
      "MEM_PCI_IO", "MEM_32BIT_DEVICES", "PCI_MMCONFIG", "RAM",
      "MEM_32BIT_RESERVED", "RAM_64BIT", "PLATFORM_DEVICES">>

\* A value of the map: (GuestAddress, GuestUsize)
Entry(base, size) == [base |-> base, size |-> size]

\* BTreeMap::insert: the value of a key already present is replaced.
insert(map, key, value) ==
    [k \in DOMAIN map \cup {key} |-> IF k = key THEN value ELSE map[k]]

\* Mutant of InsertDevices: the redistributor region is placed as if there
\* were one vcpu.
InsertDevicesOneRedist(map, vcpu_count) ==
    LET gic_redists_size == vcpu_count * GIC_V3_REDIST_SIZE
        gic_redist_start == GIC_V3_DIST_START - GIC_V3_REDIST_SIZE
        gic_its_start == gic_redist_start - GIC_V3_ITS_SIZE
        m1 == insert(map, "UEFI", Entry(UEFI_START, UEFI_SIZE))
        m2 == insert(m1, "GIC_V3_DIST", Entry(GIC_V3_DIST_START, GIC_V3_DIST_SIZE))
        m3 == insert(m2, "GIC_V3_REDIST", Entry(gic_redist_start, gic_redists_size))
        m4 == insert(m3, "GIC_V3_ITS", Entry(gic_its_start, GIC_V3_ITS_SIZE))
        m5 == insert(m4, "LEGACY_SERIAL_MAPPED_IO", Entry(LEGACY_SERIAL_MAPPED_IO_START, 1))
        m6 == insert(m5, "LEGACY_RTC_MAPPED_IO", Entry(LEGACY_RTC_MAPPED_IO_START, 1))
        m7 == insert(m6, "LEGACY_GPIO_MAPPED_IO", Entry(LEGACY_GPIO_MAPPED_IO_START, 1))
        m8 == insert(m7, "MEM_PCI_IO", Entry(MEM_PCI_IO_START, MEM_PCI_IO_SIZE))
        m9 == insert(m8, "MEM_32BIT_DEVICES",
                     Entry(MEM_32BIT_DEVICES_START, MEM_32BIT_DEVICES_SIZE))
    IN  insert(m9, "PCI_MMCONFIG", Entry(PCI_MMCONFIG_START, PCI_MMCONFIG_SIZE))

\* arch_memory_regions, layout.rs:182-207: UEFI, the GIC, the legacy MMIO
\* windows and the PCI windows.
InsertDevices(map, vcpu_count) ==
    LET gic_redists_size == vcpu_count * GIC_V3_REDIST_SIZE
        gic_redist_start == GIC_V3_DIST_START - gic_redists_size
        gic_its_start == gic_redist_start - GIC_V3_ITS_SIZE
        m1 == insert(map, "UEFI", Entry(UEFI_START, UEFI_SIZE))
        m2 == insert(m1, "GIC_V3_DIST", Entry(GIC_V3_DIST_START, GIC_V3_DIST_SIZE))
        m3 == insert(m2, "GIC_V3_REDIST", Entry(gic_redist_start, gic_redists_size))
        m4 == insert(m3, "GIC_V3_ITS", Entry(gic_its_start, GIC_V3_ITS_SIZE))
        m5 == insert(m4, "LEGACY_SERIAL_MAPPED_IO", Entry(LEGACY_SERIAL_MAPPED_IO_START, 1))
        m6 == insert(m5, "LEGACY_RTC_MAPPED_IO", Entry(LEGACY_RTC_MAPPED_IO_START, 1))
        m7 == insert(m6, "LEGACY_GPIO_MAPPED_IO", Entry(LEGACY_GPIO_MAPPED_IO_START, 1))
        m8 == insert(m7, "MEM_PCI_IO", Entry(MEM_PCI_IO_START, MEM_PCI_IO_SIZE))
        m9 == insert(m8, "MEM_32BIT_DEVICES",
                     Entry(MEM_32BIT_DEVICES_START, MEM_32BIT_DEVICES_SIZE))
    IN  insert(m9, "PCI_MMCONFIG", Entry(PCI_MMCONFIG_START, PCI_MMCONFIG_SIZE))

\* Mutant of InsertRam: the RAM beyond the 32-bit space is placed right after
\* it, in the 32-bit reserved area, instead of at RAM_64BIT_START.
InsertRamContiguous(map, size) ==
    LET ram_32bit_space_size == MEM_32BIT_RESERVED_START - RAM_START
    IN  IF size <= ram_32bit_space_size
        THEN insert(map, "RAM", Entry(RAM_START, size))
        ELSE insert(insert(map, "RAM", Entry(RAM_START, ram_32bit_space_size)),
                    "RAM_64BIT",
                    Entry(MEM_32BIT_RESERVED_START, size - ram_32bit_space_size))

\* Mutant of InsertRam: RAM that fills the 32-bit space exactly is split.
InsertRamSplitAtGap(map, size) ==
    LET ram_32bit_space_size == MEM_32BIT_RESERVED_START - RAM_START
    IN  IF size < ram_32bit_space_size
        THEN insert(map, "RAM", Entry(RAM_START, size))
        ELSE insert(insert(map, "RAM", Entry(RAM_START, ram_32bit_space_size)),
                    "RAM_64BIT", Entry(RAM_64BIT_START, size - ram_32bit_space_size))

\* arch_memory_regions, layout.rs:209-224: the RAM space.
InsertRam(map, size) ==
    LET ram_32bit_space_size == MEM_32BIT_RESERVED_START - RAM_START
    IN  IF size <= ram_32bit_space_size
        THEN insert(map, "RAM", Entry(RAM_START, size))
        ELSE insert(insert(map, "RAM", Entry(RAM_START, ram_32bit_space_size)),
                    "RAM_64BIT", Entry(RAM_64BIT_START, size - ram_32bit_space_size))

\* arch_memory_regions, layout.rs:226-229: the 32-bit reserved area, inserted
\* under the key PCI_MMCONFIG.
InsertReserved(map) ==
    insert(map, "PCI_MMCONFIG", Entry(MEM_32BIT_RESERVED_START, MEM_32BIT_RESERVED_SIZE))

\* arch_memory_regions(ram_size, vcpus), layout.rs:175-234
arch_memory_regions(size, vcpu_count) ==
    InsertReserved(InsertRam(InsertDevices(EmptyMap, vcpu_count), size))

GiB == 256 * 1024
RamSizes ==
    {0, 1}
    \cup {(MEM_32BIT_RESERVED_START - RAM_START) + d : d \in (0 - MaxRamDelta)..MaxRamDelta}
    \cup {g * GiB : g \in 1..MaxRamGiB}
\* The largest vcpus for which the GIC regions stay above the UEFI window, and
\* the largest for which gic_its_start does not go below zero.
MaxGicVcpus ==
    (GIC_V3_DIST_START - GIC_V3_ITS_SIZE - (UEFI_START + UEFI_SIZE)) \div GIC_V3_REDIST_SIZE
MaxWrapFreeVcpus == (GIC_V3_DIST_START - GIC_V3_ITS_SIZE) \div GIC_V3_REDIST_SIZE
\* vcpus: the small counts, and the counts around the two limits above.
VcpuCounts ==
    (0..MaxVcpus)
    \cup {MaxGicVcpus + d : d \in 0..1}
    \cup {MaxWrapFreeVcpus + d : d \in 0..2}

\* A call of arch_memory_regions.
CallArchMemoryRegions ==
    /\ \E size \in RamSizes, vcpu_count \in VcpuCounts :
          /\ ram_size' = size
          /\ vcpus' = vcpu_count
          /\ regions' = arch_memory_regions(size, vcpu_count)
    /\ UNCHANGED loader_vars

LayoutInit == LoaderNew({}, "Vtl0") /\ LayoutIdle
LayoutNext == CallArchMemoryRegions
LayoutSpec == LayoutInit /\ [][LayoutNext]_vars

\* ---------------------------------------------------------------- claims
IsError(r) == r.tag \in ErrorTags

\* The closed byte interval a request of page_count pages at page_base asks for.
RequestBase(c) == c.page_base * HV_PAGE_SIZE
RequestEnd(c) == (c.page_base + c.page_count) * HV_PAGE_SIZE - 1

\* Some single region of guest memory holds the whole request.
InOneRegion(c) ==
    \E r \in memory : r.start <= RequestBase(c) /\ RequestEnd(c) <= r.last

\* C1: after any sequence of accept_new_range and import_pages calls, no two
\* accepted ranges share a page index: of any two entries of the tracker, one
\* ends before the other starts.
C1_AcceptedRangesDisjoint ==
    \A r1 \in accepted_ranges : \A r2 \in accepted_ranges :
        r1 # r2 => (r1.end < r2.start \/ r2.end < r1.start)

\* C1 witness: two ranges that touch are both accepted, and the last call, which
\* intersected one of them, was rejected.
C1_Witness ==
    /\ \E r1 \in accepted_ranges : \E r2 \in accepted_ranges : r1.end + 1 = r2.start
    /\ result.tag = "OverlapsExistingRegion"

\* C2: every import_pages call that returns an error leaves the accepted ranges
\* as they were before the call.
C2_FailedImportLeavesTracker ==
    [][(call'.op = "import_pages" /\ IsError(result'))
          => accepted_ranges' = accepted_ranges]_vars

\* C3: bytes_written is the sum of page_count * HV_PAGE_SIZE over exactly the
\* import_pages calls that returned Ok (ok_bytes is that sum, kept as history);
\* a failed call adds nothing to either.
C3_BytesWrittenSumsSuccesses == bytes_written = ok_bytes

\* C3 witness: after a successful import, an import has failed at the capacity
\* check, and the counter holds the pages of the successful one.
C3_Witness ==
    /\ call.op = "import_pages"
    /\ result = DataTooLarge
    /\ bytes_written = 2 * HV_PAGE_SIZE

\* C4: an accept_new_range call that fails with an overlap leaves the set of
\* entries of the tracker unchanged.
C4_FailedAcceptLeavesTracker ==
    [][(call'.op = "accept_new_range" /\ result'.tag = "OverlapsExistingRegion")
          => accepted_ranges' = accepted_ranges]_vars

\* C4 witness: accept_new_range was rejected over a tracker holding two ranges.
C4_Witness ==
    /\ call.op = "accept_new_range"
    /\ result.tag = "OverlapsExistingRegion"
    /\ Cardinality(accepted_ranges) = 2

\* C5: the register table holds at most one value per kind, the first one
\* imported with Ok (first_regs, kept as history), and get_initial_regs returns
\* exactly these; an import at max_vtl of a kind not yet present returns Ok and
\* stores its value; an import of a kind already present does not return Ok
\* and does not change the table.
C5_OneValuePerKindFirstWins ==
    /\ [](/\ regs = first_regs
          /\ \A k \in DOMAIN regs : discriminant(regs[k]) = k
          /\ get_initial_regs = {first_regs[k] : k \in DOMAIN first_regs})
    /\ [][call'.op = "import_vp_register" =>
            LET kind == discriminant(call'.register)
            IN  /\ (kind \notin DOMAIN regs /\ call'.vtl = max_vtl)
                      => /\ result' = Ok
                         /\ regs' = Insert(regs, kind, call'.register)
                         /\ call'.register \in get_initial_regs'
                /\ kind \in DOMAIN regs
                      => (result' # Ok /\ regs' = regs)]_vars

\* C5 witness: both kinds were imported, and a further import of a kind already
\* present, with another value, did not replace the stored one.
C5_Witness ==
    /\ DOMAIN regs = RegisterKinds
    /\ Cardinality(get_initial_regs) = 2
    /\ call.op = "import_vp_register"
    /\ call.vtl = max_vtl
    /\ call.register # regs[discriminant(call.register)]

\* C6: import_vp_register at a level other than max_vtl returns InvalidVtl and
\* leaves the register table unchanged.
C6_OtherVtlRejected ==
    [][(call'.op = "import_vp_register" /\ call'.vtl # max_vtl)
          => (result' = InvalidVtl /\ regs' = regs)]_vars

\* C6 witness: an import at another level was rejected with InvalidVtl while the
\* table already held a register.
C6_Witness ==
    /\ call.op = "import_vp_register"
    /\ call.vtl # max_vtl
    /\ result = InvalidVtl
    /\ regs # EmptyMap

\* C7: no call sequence ends the engine in a process abort: every failure is an
\* error value returned to the caller.
C7_NoAbort == result.tag # "Panic"

\* C8: for a permitted memory type, verify_startup_memory_available returns Ok
\* if and only if one region of guest memory holds the whole requested byte
\* interval, and MemoryUnavailable otherwise.
C8_VerifyIffInOneRegion ==
    (/\ call.op = "verify_startup_memory_available"
     /\ (call.memory_type = "Ram" \/ max_vtl = "Vtl2"))
        => /\ result = Ok <=> InOneRegion(call)
           /\ result # Ok => result = MemoryUnavailable

\* C8 witness: the first and the last byte of the request are backed, by two
\* different regions, and the call returned MemoryUnavailable.
C8_Witness ==
    /\ call.op = "verify_startup_memory_available"
    /\ call.memory_type = "Ram"
    /\ find_region(memory, RequestBase(call)) # {}
    /\ find_region(memory, RequestEnd(call)) # {}
    /\ result = MemoryUnavailable

\* C9: in a session whose max_vtl is not Vtl2, a memory type other than Ram is
\* rejected with MemoryUnavailable even when the request is fully backed; in a
\* Vtl2 session a Vtl2ProtectableRam request is decided by containment alone.
C9_VtlPolicyFirst ==
    call.op = "verify_startup_memory_available"
        => /\ (max_vtl # "Vtl2" /\ call.memory_type # "Ram")
                 => result = MemoryUnavailable
           /\ (max_vtl = "Vtl2" /\ call.memory_type = "Vtl2ProtectableRam")
                 => (result = Ok <=> InOneRegion(call))

\* C9 witness: outside a Vtl2 session, a Vtl2ProtectableRam request that one
\* region holds entirely was rejected.
C9_Witness ==
    /\ call.op = "verify_startup_memory_available"
    /\ max_vtl # "Vtl2"
    /\ call.memory_type = "Vtl2ProtectableRam"
    /\ InOneRegion(call)
    /\ result = MemoryUnavailable

\* The sizes of the RAM entries of the map, summed.
RamTotal(map) ==
    (IF "RAM" \in DOMAIN map THEN map["RAM"].size ELSE 0)
    + (IF "RAM_64BIT" \in DOMAIN map THEN map["RAM_64BIT"].size ELSE 0)

\* C10: with gap = MEM_32BIT_RESERVED_START - RAM_START, a ram_size of at most
\* gap gives the single entry RAM = (RAM_START, ram_size) and no RAM_64BIT;
\* a larger one gives RAM = (RAM_START, gap) and RAM_64BIT = (RAM_64BIT_START,
\* ram_size - gap); either way the RAM sizes sum to ram_size.
C10_RamSplitAroundGap ==
    regions # EmptyMap =>
        LET gap == MEM_32BIT_RESERVED_START - RAM_START
        IN  /\ "RAM" \in DOMAIN regions
            /\ IF ram_size <= gap
               THEN /\ regions["RAM"] = Entry(RAM_START, ram_size)
                    /\ "RAM_64BIT" \notin DOMAIN regions
               ELSE /\ regions["RAM"] = Entry(RAM_START, gap)
                    /\ "RAM_64BIT" \in DOMAIN regions
                    /\ regions["RAM_64BIT"] = Entry(RAM_64BIT_START, ram_size - gap)
            /\ RamTotal(regions) = ram_size

\* C10 witness: ram_size is exactly the gap, and the map holds one RAM entry of
\* that size.
C10_Witness ==
    /\ regions # EmptyMap
    /\ ram_size = MEM_32BIT_RESERVED_START - RAM_START
    /\ regions["RAM"].size = ram_size
    /\ "RAM_64BIT" \notin DOMAIN regions

\* The name, base and size the constants of layout.rs give every fixed region.
FixedRegions ==
    [UEFI |-> Entry(UEFI_START, UEFI_SIZE),
     GIC_V3_DIST |-> Entry(GIC_V3_DIST_START, GIC_V3_DIST_SIZE),
     LEGACY_SERIAL_MAPPED_IO |-> Entry(LEGACY_SERIAL_MAPPED_IO_START, 1),
     LEGACY_RTC_MAPPED_IO |-> Entry(LEGACY_RTC_MAPPED_IO_START, 1),
     LEGACY_GPIO_MAPPED_IO |-> Entry(LEGACY_GPIO_MAPPED_IO_START, 1),
     MEM_PCI_IO |-> Entry(MEM_PCI_IO_START, MEM_PCI_IO_SIZE),
     MEM_32BIT_DEVICES |-> Entry(MEM_32BIT_DEVICES_START, MEM_32BIT_DEVICES_SIZE),
     PCI_MMCONFIG |-> Entry(PCI_MMCONFIG_START, PCI_MMCONFIG_SIZE),
     MEM_32BIT_RESERVED |-> Entry(MEM_32BIT_RESERVED_START, MEM_32BIT_RESERVED_SIZE)]

\* C11: the map holds every fixed region under its own name with its own base
\* and size; in particular MEM_32BIT_RESERVED is (4 GiB - 64 MiB, 64 MiB) and
\* PCI_MMCONFIG is (0x3000_0000, 256 MiB).
C11_FixedRegionsUnderOwnNames ==
    regions # EmptyMap =>
        \A name \in DOMAIN FixedRegions :
            name \in DOMAIN regions /\ regions[name] = FixedRegions[name]

\* The half-open intervals of two entries share an address.
EntriesOverlap(a, b) ==
    /\ a.size > 0
    /\ b.size > 0
    /\ a.base < b.base + b.size
    /\ b.base < a.base + a.size

\* No two entries of the map overlap, and no base or size went below zero.
\* (An end past 2^64 needs a ram_size of more than 2^64 - 4 GiB bytes, which
\* is beyond the sizes enumerated here.)
DisjointAndWrapFree(map) ==
    /\ \A n1, n2 \in DOMAIN map : n1 # n2 => ~EntriesOverlap(map[n1], map[n2])
    /\ \A n \in DOMAIN map : map[n].base >= 0 /\ map[n].size >= 0

\* C12 as stated: for every ram_size and every vcpus >= 1, no two entries of
\* the map overlap and no base or end wraps.
C12_DisjointForEveryVcpus ==
    (regions # EmptyMap /\ vcpus >= 1) => DisjointAndWrapFree(regions)

\* C12: for every ram_size and every vcpus from 1 to MaxGicVcpus (1118), no
\* two entries of the map overlap (half-open intervals) and no base or end
\* wraps.
C12_DisjointUpToMaxGicVcpus ==
    (regions # EmptyMap /\ vcpus >= 1 /\ vcpus <= MaxGicVcpus)
        => DisjointAndWrapFree(regions)

\* C12 witness: the largest such vcpus, with RAM on both sides of the 32-bit
\* reserved area.
C12_Witness ==
    /\ regions # EmptyMap
    /\ vcpus = MaxGicVcpus
    /\ "RAM_64BIT" \in DOMAIN regions
    /\ regions["GIC_V3_ITS"].base >= UEFI_START + UEFI_SIZE

\* The three GIC regions lie back to back below the distributor, at addresses
\* that did not go below zero.
GicContiguous(map, vcpu_count) ==
    /\ {"GIC_V3_ITS", "GIC_V3_REDIST", "GIC_V3_DIST"} \subseteq DOMAIN map
    /\ map["GIC_V3_DIST"] = Entry(GIC_V3_DIST_START, GIC_V3_DIST_SIZE)
    /\ map["GIC_V3_REDIST"].size = vcpu_count * GIC_V3_REDIST_SIZE
    /\ map["GIC_V3_REDIST"].base + map["GIC_V3_REDIST"].size = map["GIC_V3_DIST"].base
    /\ map["GIC_V3_ITS"].size = GIC_V3_ITS_SIZE
    /\ map["GIC_V3_ITS"].base + map["GIC_V3_ITS"].size = map["GIC_V3_REDIST"].base
    /\ map["GIC_V3_REDIST"].base >= 0
    /\ map["GIC_V3_ITS"].base >= 0

\* C13 as stated: for every vcpus the three GIC regions are contiguous below
\* the distributor base.
C13_GicContiguousForEveryVcpus ==
    regions # EmptyMap => GicContiguous(regions, vcpus)

\* C13: for every vcpus up to MaxWrapFreeVcpus (1150), GIC_V3_REDIST has size
\* vcpus * GIC_V3_REDIST_SIZE and ends at the base of GIC_V3_DIST, and
\* GIC_V3_ITS ends at the base of GIC_V3_REDIST.
C13_GicContiguousUpToWrap ==
    (regions # EmptyMap /\ vcpus <= MaxWrapFreeVcpus) => GicContiguous(regions, vcpus)

\* C13 witness: a map for several vcpus, the redistributor region larger than
\* one unit.
C13_Witness ==
    /\ regions # EmptyMap
    /\ vcpus = MaxVcpus
    /\ regions["GIC_V3_REDIST"].size > GIC_V3_REDIST_SIZE
    /\ regions["GIC_V3_REDIST"].base + regions["GIC_V3_REDIST"].size = GIC_V3_DIST_START

\* C14: enumerating the entries of the map in the order of RegionName yields
\* strictly increasing bases.
C14_BasesIncreaseInNameOrder ==
    regions # EmptyMap =>
        \A i, j \in 1..Len(RegionNames) :
            (i < j /\ RegionNames[i] \in DOMAIN regions /\ RegionNames[j] \in DOMAIN regions)
                => regions[RegionNames[i]].base < regions[RegionNames[j]].base

\* C15: no error is recoverable by retry: when import_pages,
\* import_vp_register or verify_startup_memory_available returned an error,
\* the same call repeated right after it returns an error too.
C15_ErrorRepeatsOnRetry ==
    [][(IsError(result) /\ call' = call) => IsError(result')]_vars

\* C15 witness: an import of backed page 0 with data too long was repeated: the
\* first call left its range in the tracker without any import succeeding,
\* and the repeated call met that range.
C15_Witness ==
    /\ call.op = "import_pages"
    /\ call.page_base = 0
    /\ call.len > call.page_count * HV_PAGE_SIZE
    /\ result.tag = "OverlapsExistingRegion"
    /\ ok_bytes = 0
    /\ accepted_ranges = {[start |-> call.page_base,
                           end |-> call.page_base + call.page_count - 1,
                           value |-> call.acceptance]}

\* The entry e and the page_count pages from page_base on share a page.
SharesPage(e, page_base, page_count) ==
    \E p \in page_base..(page_base + page_count - 1) : e.start <= p /\ p <= e.end

\* C16: accept_new_range of [page_base, page_base + page_count - 1] succeeds
\* exactly when the interval shares no page with an accepted range (ranges
\* that only touch are accepted), and on success that interval, with the
\* given kind, is the one entry added to the tracker.
C16_AcceptIffNoSharedPage ==
    [][call'.op = "accept_new_range" =>
          LET new == [start |-> call'.page_base,
                      end |-> call'.page_base + call'.page_count - 1,
                      value |-> call'.acceptance]
              shared == \E e \in accepted_ranges :
                            SharesPage(e, call'.page_base, call'.page_count)
          IN  /\ (result' = Ok) <=> ~shared
              /\ result' = Ok =>
                    (new \notin accepted_ranges
                     /\ accepted_ranges' = accepted_ranges \cup {new})
              /\ result' # Ok => result'.tag = "OverlapsExistingRegion"]_vars

\* C16 witness: a range that starts on the page after an accepted range was
\* accepted.
C16_Witness ==
    /\ call.op = "accept_new_range"
    /\ result = Ok
    /\ \E e \in accepted_ranges : e.end + 1 = call.page_base
    /\ \E e \in accepted_ranges :
          e.start = call.page_base /\ e.end = call.page_base + call.page_count - 1

\* C17: the OverlapsExistingRegion error of a rejected range carries the base,
\* count and kind of an accepted range that intersects the request, not the
\* parameters of the request.
C17_ErrorDescribesExistingEntry ==
    [][(call'.op \in {"accept_new_range", "import_pages"}
          /\ result'.tag = "OverlapsExistingRegion")
          => \E e \in accepted_ranges :
                /\ result'.region = ImportRegion(e.start, e.end - e.start + 1, e.value)
                /\ SharesPage(e, call'.page_base, call'.page_count)]_vars

\* C17 witness: a rejected request whose base, count and kind all differ from
\* the ones the error carries.
C17_Witness ==
    /\ call.op \in {"accept_new_range", "import_pages"}
    /\ result.tag = "OverlapsExistingRegion"
    /\ result.region.page_base # call.page_base
    /\ result.region.page_count # call.page_count
    /\ result.region.acceptance # call.acceptance

\* C18: import_pages checks overlap, then capacity, then writes: a request
\* that overlaps an accepted range returns the overlap error even when its
\* data is too long; a DataTooLarge call writes no byte; guest memory is
\* written only by a call that passed both checks.
C18_OverlapThenCapacityThenWrite ==
    [][call'.op = "import_pages" =>
          LET shared == \E e \in accepted_ranges :
                            SharesPage(e, call'.page_base, call'.page_count)
              too_large == call'.len > call'.page_count * HV_PAGE_SIZE
          IN  /\ shared => result'.tag = "OverlapsExistingRegion"
              /\ (~shared /\ too_large) => result' = DataTooLarge
              /\ result' = DataTooLarge => written' = {}
              /\ written' # {} => (~shared /\ ~too_large)]_vars

\* C18 witness: a request both overlapping and too long was answered with the
\* overlap error.
C18_Witness ==
    /\ call.op = "import_pages"
    /\ call.len > call.page_count * HV_PAGE_SIZE
    /\ result.tag = "OverlapsExistingRegion"
    /\ written = {}

\* C19: in import_vp_register the level check comes before the duplicate-kind
\* check: a call at a level other than max_vtl returns InvalidVtl even when a
\* register of its kind is stored, and the abort happens only in calls at
\* max_vtl.
C19_VtlCheckBeforeDuplicateCheck ==
    [][call'.op = "import_vp_register" =>
          /\ (call'.vtl # max_vtl /\ discriminant(call'.register) \in DOMAIN regs)
                => result' = InvalidVtl
          /\ result' = Panic
                => (call'.vtl = max_vtl /\ discriminant(call'.register) \in DOMAIN regs)]_vars

\* C19 witness: a register of a stored kind, imported at another level, was
\* answered with InvalidVtl.
C19_Witness ==
    /\ call.op = "import_vp_register"
    /\ call.vtl # max_vtl
    /\ discriminant(call.register) \in DOMAIN regs
    /\ regs[discriminant(call.register)] # call.register
    /\ result = InvalidVtl

\* C20: the components of the state are independent: import_vp_register
\* changes neither the tracker nor bytes_written, import_pages does not change
\* the register table, verify_startup_memory_available changes none of the
\* tracker, the register table, bytes_written and guest memory, and max_vtl
\* never changes.
C20_ComponentsIndependent ==
    [][/\ max_vtl' = max_vtl
       /\ call'.op = "import_vp_register"
             => (accepted_ranges' = accepted_ranges /\ bytes_written' = bytes_written)
       /\ call'.op = "import_pages" => regs' = regs
       /\ call'.op = "verify_startup_memory_available"
             => /\ accepted_ranges' = accepted_ranges
                /\ regs' = regs
                /\ bytes_written' = bytes_written
                /\ memory' = memory
                /\ written' = {}]_vars

\* C20 witness: a register was imported while the tracker held a range and
\* bytes had been counted, and the session's max_vtl is Vtl2.
C20_Witness ==
    /\ call.op = "import_vp_register"
    /\ result = Ok
    /\ max_vtl = "Vtl2"
    /\ accepted_ranges # {}
    /\ bytes_written > 0
    /\ regs # EmptyMap

====
